---- MODULE Spec2Model ----
(***************************************************************************)
(* Resource-budget guard of cohete: the MemoryBudget ledger               *)
(* (src/src/memory.rs) and the thermal circuit breaker                     *)
(* (src/src/thermal.rs).                                                   *)
(*                                                                         *)
(* Unsigned 64-bit quantities are modelled on WORD_BITS-bit words: every   *)
(* u64 operation of the source keeps its semantics (saturating_sub         *)
(* saturates, AtomicU64::fetch_add/fetch_sub wrap, `+` overflows) on the   *)
(* narrower word.                                                          *)
(*                                                                         *)
(* Spec        callers of one MemoryBudget, every interleaving             *)
(* SpecSerial  the same callers, serialized externally                     *)
(* SpecThermal one TegraMonitor and its ThermalCircuitBreaker; what the    *)
(*             sensor reports to sample() is an input of the model         *)
(* SpecThermalLive  the breaker's calls under fair scheduling              *)
(* SpecSelect  calls of JetsonQuantizer::select_for_budget; its f32        *)
(*             arithmetic is modelled bit for bit, sizes are not scaled    *)
(* SpecUtilization  calls of MemoryBudget::utilization_percent, likewise   *)
(***************************************************************************)
EXTENDS Integers, Sequences, FiniteSets, TLC

\* ---------------------------------------------------------------- bounds
WORD_BITS == 2
MaxGuards == 3
MaxSamples == 3
MaxModelSize == 17
MaxAvailable == 4
MaxBudgetMb == 7
MaxDevices == 3

Modulus == 2 ^ WORD_BITS
U64 == 0 .. (Modulus - 1)
Threads == {"t1", "t2"}

\* the budgets the model constructs: total_mb none, half the word, all of it;
\* reserved_mb none, one, half the word, all of it
Totals == {0, Modulus \div 2, Modulus - 1}
Reserves == {0, 1, Modulus \div 2, Modulus - 1}

VARIABLES
    total_mb,      \* MemoryBudget.total_mb
    reserved_mb,   \* MemoryBudget.reserved_mb
    allocated,     \* MemoryBudget.allocated (AtomicU64)
    pc,            \* per caller: position inside try_allocate
    req,           \* per caller: size_mb of the call in flight
    avail,         \* per caller: the local `available` of the call in flight
    guards,        \* the live MemoryGuard values: size_mb -> how many of them
    result,        \* what the most recent return of try_allocate returned
    solo,          \* per caller in flight: no other ledger operation since its load
    policy,        \* TegraMonitor.policy (ThermalPolicy)
    last_stats,    \* TegraMonitor.last_stats (Option<TegraStats>)
    call,          \* the monitor / breaker method that was called last
    bpc,           \* position inside the async call in progress
    samples,       \* the samples taken by that call, in order, each with its test
    sleeps,        \* the sleeps that call has started
    worked,        \* that call has started its work
    outcome,       \* what that call returned
    before,        \* how the call before that one went
    sensor,        \* the sensor's regime: "any" reading, or "cool" from now on
    query,         \* the last call of a pure function: its arguments and its value
    devices,       \* Fleet.devices (HashMap<String, FleetMember>): its entries
    returned,      \* what the most recent Fleet call returned
    live_ids       \* the device ids added to the fleet and not removed since

ledgerVars == <<total_mb, reserved_mb, allocated, pc, req, avail, guards, result, solo>>
thermalVars == <<policy, last_stats, call, bpc, samples, sleeps, worked, outcome,
                 before, sensor>>
fleetVars == <<devices, returned, live_ids>>
vars == <<total_mb, reserved_mb, allocated, pc, req, avail, guards, result, solo,
          policy, last_stats, call, bpc, samples, sleeps, worked, outcome,
          before, sensor, query, devices, returned, live_ids>>

\* ------------------------------------------------------- u64 arithmetic
\* u64::saturating_sub
SaturatingSub(a, b) == IF a >= b THEN a - b ELSE 0

\* u64 wrapping addition / subtraction (AtomicU64::fetch_add, fetch_sub)
WrappingAdd(a, b) == (a + b) % Modulus
WrappingSub(a, b) == (a + Modulus - b) % Modulus

\* `reserved_mb + allocated` leaves the word
AddOverflows(a, b) == a + b >= Modulus

\* --------------------------------------------------------- MemoryBudget
\* available_mb as it would be if it left out what is allocated
AvailableMbOfUsable(total, reserved, alloc) == SaturatingSub(total, reserved)

\* MemoryBudget::available_mb on a build without overflow checks
AvailableMb(total, reserved, alloc) ==
    SaturatingSub(total, WrappingAdd(reserved, alloc))

\* MemoryBudget::usable_mb
UsableMb(total, reserved) == SaturatingSub(total, reserved)

\* Result<MemoryGuard>: Ok(MemoryGuard { size_mb }), Err(InsufficientMemory
\* { requested_mb, available_mb }), or the panic of an overflowing addition
NoResult == [kind |-> "None", size_mb |-> 0, available_mb |-> 0]
OkGuard(size) == [kind |-> "Ok", size_mb |-> size, available_mb |-> 0]
ErrInsufficientMemory(size, available) ==
    [kind |-> "InsufficientMemory", size_mb |-> size, available_mb |-> available]
Panicked == [kind |-> "Panic", size_mb |-> 0, available_mb |-> 0]

RECURSIVE SumOver(_, _)
SumOver(f, S) ==
    IF S = {} THEN 0
    ELSE LET x == CHOOSE y \in S : TRUE IN f[x] + SumOver(f, S \ {x})

\* can_allocate as it would be with < for <=
CanAllocateStrictly(size_mb) ==
    size_mb < AvailableMb(total_mb, reserved_mb, allocated)

\* MemoryBudget::can_allocate in the present state, a read of the ledger
CanAllocate(size_mb) ==
    size_mb <= AvailableMb(total_mb, reserved_mb, allocated)

\* number of live guards, and of calls that may still create one
LiveGuards == SumOver(guards, U64)
CallsInFlight == {u \in Threads : pc[u] = "checked"}
InFlight == Cardinality(CallsInFlight)

\* MemoryBudget::new(total_mb, reserved_mb)
New(total, reserved) ==
    /\ total_mb = total
    /\ reserved_mb = reserved
    /\ allocated = 0
    /\ pc = [t \in Threads |-> "idle"]
    /\ req = [t \in Threads |-> 0]
    /\ avail = [t \in Threads |-> 0]
    /\ guards = [s \in U64 |-> 0]
    /\ result = NoResult
    /\ solo = [t \in Threads |-> TRUE]

\* the operation of caller t has come between the load and the fetch_add of
\* every other call in flight; t itself is in flight after the step iff inflight
Interleaved(t, inflight) ==
    [u \in Threads |-> IF u = t THEN TRUE
                       ELSE IF u \in inflight THEN FALSE ELSE solo[u]]

\* the first step as it would be with >= for > in the comparison
TryAllocateCheckInclusive(t, size_mb) ==
    /\ pc[t] = "idle"
    /\ LiveGuards + InFlight < MaxGuards
    /\ LET available == AvailableMb(total_mb, reserved_mb, allocated) IN
        IF size_mb >= available
        THEN /\ result' = ErrInsufficientMemory(size_mb, available)
             /\ UNCHANGED <<pc, req, avail>>
        ELSE /\ pc' = [pc EXCEPT ![t] = "checked"]
             /\ req' = [req EXCEPT ![t] = size_mb]
             /\ avail' = [avail EXCEPT ![t] = available]
             /\ UNCHANGED result
    /\ solo' = Interleaved(t, CallsInFlight)
    /\ UNCHANGED <<total_mb, reserved_mb, allocated, guards>>
    /\ UNCHANGED <<thermalVars, query, fleetVars>>

\* try_allocate, first step: available_mb() loads `allocated`, the size is
\* compared with the local copy and the error is returned. When
\* `reserved_mb + allocated` leaves the word, a build with overflow checks
\* panics and a build without them wraps: both outcomes are possible.
TryAllocateCheck(t, size_mb) ==
    /\ pc[t] = "idle"
    /\ LiveGuards + InFlight < MaxGuards
    /\ \E overflow_checks \in BOOLEAN :
        IF AddOverflows(reserved_mb, allocated) /\ overflow_checks
        THEN /\ result' = Panicked
             /\ UNCHANGED <<pc, req, avail>>
        ELSE LET available == AvailableMb(total_mb, reserved_mb, allocated) IN
            IF size_mb > available
            THEN /\ result' = ErrInsufficientMemory(size_mb, available)
                 /\ UNCHANGED <<pc, req, avail>>
            ELSE /\ pc' = [pc EXCEPT ![t] = "checked"]
                 /\ req' = [req EXCEPT ![t] = size_mb]
                 /\ avail' = [avail EXCEPT ![t] = available]
                 /\ UNCHANGED result
    /\ solo' = Interleaved(t, CallsInFlight)
    /\ UNCHANGED <<total_mb, reserved_mb, allocated, guards>>
    /\ UNCHANGED <<thermalVars, query, fleetVars>>

\* try_allocate, second step: fetch_add and the guard is returned
TryAllocateAdd(t) ==
    /\ pc[t] = "checked"
    /\ allocated' = WrappingAdd(allocated, req[t])
    /\ guards' = [guards EXCEPT ![req[t]] = @ + 1]
    /\ result' = OkGuard(req[t])
    /\ pc' = [pc EXCEPT ![t] = "idle"]
    /\ req' = [req EXCEPT ![t] = 0]
    /\ avail' = [avail EXCEPT ![t] = 0]
    /\ solo' = Interleaved(t, CallsInFlight \ {t})
    /\ UNCHANGED <<total_mb, reserved_mb>>
    /\ UNCHANGED <<thermalVars, query, fleetVars>>

\* impl Drop for MemoryGuard: the guard of size size_mb is consumed
DropGuard(size_mb) ==
    /\ guards[size_mb] > 0
    /\ allocated' = WrappingSub(allocated, size_mb)
    /\ guards' = [guards EXCEPT ![size_mb] = @ - 1]
    /\ solo' = [u \in Threads |-> IF u \in CallsInFlight THEN FALSE ELSE solo[u]]
    /\ UNCHANGED <<total_mb, reserved_mb, pc, req, avail, result>>
    /\ UNCHANGED <<thermalVars, query, fleetVars>>

\* ------------------------------------------------- thermal: policy, monitor
\* Temperatures are f32 in the source and are only ever compared; they are
\* modelled by whole degrees.
\* ThermalPolicy::conservative / aggressive / custom
Conservative == [threshold_c |-> 65, cooldown_c |-> 55, check_interval_ms |-> 500]
Aggressive == [threshold_c |-> 75, cooldown_c |-> 65, check_interval_ms |-> 1000]
Custom(threshold_c, cooldown_c, check_interval_ms) ==
    [threshold_c |-> threshold_c, cooldown_c |-> cooldown_c,
     check_interval_ms |-> check_interval_ms]

\* the policies the model constructs: the presets, a custom policy with
\* equal pause and resume points, and one with the resume point above the
\* pause point (custom stores its arguments as given)
Policies == {Conservative, Aggressive, Custom(60, 60, 250), Custom(40, 50, 250)}

\* what the sensor can report to one sample() call: a reading, or a failure.
\* The placeholder body of sample() is the reading (45, 42, 44).
GpuTemps == {35, 45, 55, 60, 65, 70, 80}
CpuTemps == {42, 90}
SocTemps == {44, 90}
SampleErrors == {"Parse", "Io"}
Reading(g, c, s) == [ok |-> TRUE, gpu_temp |-> g, cpu_temp |-> c, soc_temp |-> s, err |-> ""]
Failure(e) == [ok |-> FALSE, gpu_temp |-> 0, cpu_temp |-> 0, soc_temp |-> 0, err |-> e]
Readings ==
    {Reading(g, c, s) : g \in GpuTemps, c \in CpuTemps, s \in SocTemps}
        \cup {Failure(e) : e \in SampleErrors}

\* Option<TegraStats>
None == [gpu_temp |-> 0, cpu_temp |-> 0, soc_temp |-> 0, some |-> FALSE]
Some(r) == [gpu_temp |-> r.gpu_temp, cpu_temp |-> r.cpu_temp,
            soc_temp |-> r.soc_temp, some |-> TRUE]

\* Result<T>
Ok(flag, value) == [kind |-> "Ok", err |-> "", flag |-> flag, value |-> value]
Err(e) == [kind |-> "Err", err |-> e, flag |-> FALSE, value |-> 0]
NoOutcome == [kind |-> "None", err |-> "", flag |-> FALSE, value |-> 0]

\* sample as it would be if a failure cleared what was stored
SampleStatsClearing(r, stats) == IF r.ok THEN Some(r) ELSE None

\* TegraMonitor::sample: the stats are stored and returned, a failure is
\* returned before anything is stored
SampleStats(r, stats) == IF r.ok THEN Some(r) ELSE stats

\* gpu_temp as it would be with a failed sample replaced by a default reading
GpuTempOrDefault(r) == Ok(FALSE, r.gpu_temp)

\* TegraMonitor::gpu_temp: `self.sample()?` then the GPU temperature
GpuTemp(r) == IF r.ok THEN Ok(FALSE, r.gpu_temp) ELSE Err(r.err)

\* is_throttled as it would be testing against the resume point
IsThrottledAtCooldown(r, p) ==
    LET temp == GpuTemp(r) IN
    IF temp.kind = "Ok" THEN Ok(temp.value > p.cooldown_c, 0) ELSE temp

\* is_throttled as it would be with >= for >
IsThrottledInclusive(r, p) ==
    LET temp == GpuTemp(r) IN
    IF temp.kind = "Ok" THEN Ok(temp.value >= p.threshold_c, 0) ELSE temp

\* TegraMonitor::is_throttled: `self.gpu_temp()?` then temp > threshold_c
IsThrottled(r, p) ==
    LET temp == GpuTemp(r) IN
    IF temp.kind = "Ok" THEN Ok(temp.value > p.threshold_c, 0) ELSE temp

\* is_open as it would be if the breaker stayed open on the reading that
\* opened it
IsOpenLatched(r, p) ==
    IF last_stats.some /\ last_stats.gpu_temp > p.threshold_c
    THEN Ok(TRUE, 0)
    ELSE IsThrottled(r, p)

\* ThermalCircuitBreaker::is_open
IsOpen(r, p) == IsThrottled(r, p)

\* the loop test as it would be testing against the pause point
CooledAtThreshold(temp, p) == temp <= p.threshold_c

\* the loop test as it would be with < for <=
CooledStrictly(temp, p) == temp < p.cooldown_c

\* the test of wait_for_cooldown's loop: temp <= cooldown_c
Cooled(temp, p) == temp <= p.cooldown_c

\* the work handed to guard: it resolves to Ok(value) or to its own error
WorkResults == {Ok(FALSE, 42), Err("Quantization")}

\* TegraMonitor::new().with_policy(p), ThermalCircuitBreaker::new(monitor)
NewMonitor(p) ==
    /\ policy = p
    /\ last_stats = None
    /\ call = "none"
    /\ bpc = "idle"
    /\ samples = <<>>
    /\ sleeps = 0
    /\ worked = FALSE
    /\ outcome = NoOutcome
    /\ before = "none"
    /\ sensor = "any"

\* how the call that is now over went, as the next call finds it
Summary ==
    IF call = "none" THEN "none"
    ELSE IF sleeps > 0 THEN "waited"
    ELSE IF outcome.kind = "Err" THEN "failed"
    ELSE "ran"

\* one entry of the call's sample log
Taken(r, test) == [ok |-> r.ok, gpu_temp |-> r.gpu_temp, err |-> r.err, test |-> test]

\* a synchronous call: it starts from idle and returns in the same step
Returns(name, r, test, out) ==
    /\ bpc = "idle"
    /\ call' = name
    /\ last_stats' = SampleStats(r, last_stats)
    /\ samples' = <<Taken(r, test)>>
    /\ sleeps' = 0
    /\ worked' = FALSE
    /\ outcome' = out
    /\ before' = Summary
    /\ UNCHANGED <<bpc, policy>>
    /\ UNCHANGED <<ledgerVars, sensor, query, fleetVars>>

Sample(r) ==
    Returns("sample", r, "none", IF r.ok THEN Ok(FALSE, r.gpu_temp) ELSE Err(r.err))

CallGpuTemp(r) == Returns("gpu_temp", r, "none", GpuTemp(r))

CallIsThrottled(r) == Returns("is_throttled", r, "threshold", IsThrottled(r, policy))

CallIsOpen(r) == Returns("is_open", r, "threshold", IsOpen(r, policy))

\* wait_for_cooldown is called and polled: the loop is entered
WaitForCooldown ==
    /\ bpc = "idle"
    /\ call' = "wait_for_cooldown"
    /\ bpc' = "cooling"
    /\ samples' = <<>>
    /\ sleeps' = 0
    /\ worked' = FALSE
    /\ outcome' = NoOutcome
    /\ before' = Summary
    /\ UNCHANGED <<policy, last_stats>>
    /\ UNCHANGED <<ledgerVars, sensor, query, fleetVars>>

\* guard is called and polled: is_open()? decides between waiting and working
Guard(r) ==
    /\ bpc = "idle"
    /\ call' = "guard"
    /\ last_stats' = SampleStats(r, last_stats)
    /\ samples' = <<Taken(r, "threshold")>>
    /\ sleeps' = 0
    /\ LET open == IsOpen(r, policy) IN
        IF open.kind = "Err"
        THEN /\ outcome' = open
             /\ worked' = FALSE
             /\ UNCHANGED bpc
        ELSE /\ outcome' = NoOutcome
             /\ worked' = ~open.flag
             /\ bpc' = IF open.flag THEN "cooling" ELSE "working"
    /\ before' = Summary
    /\ UNCHANGED policy
    /\ UNCHANGED <<ledgerVars, sensor, query, fleetVars>>

\* the loop as it would be if it gave up after one sleep with a Timeout error
CooldownSampleTimingOut(r) ==
    /\ bpc = "cooling"
    /\ Len(samples) < MaxSamples + (IF sensor = "cool" THEN 1 ELSE 0)
    /\ last_stats' = SampleStats(r, last_stats)
    /\ samples' = Append(samples, Taken(r, "cooldown"))
    /\ LET temp == GpuTemp(r) IN
        IF temp.kind = "Err"
        THEN /\ outcome' = temp
             /\ bpc' = "idle"
             /\ UNCHANGED <<sleeps, worked>>
        ELSE IF Cooled(temp.value, policy)
        THEN /\ bpc' = IF call = "guard" THEN "working" ELSE "idle"
             /\ worked' = (call = "guard")
             /\ outcome' = IF call = "guard" THEN NoOutcome ELSE Ok(FALSE, 0)
             /\ UNCHANGED sleeps
        ELSE IF sleeps >= 1
        THEN /\ outcome' = Err("Timeout")
             /\ bpc' = "idle"
             /\ UNCHANGED <<sleeps, worked>>
        ELSE /\ bpc' = "sleeping"
             /\ sleeps' = sleeps + 1
             /\ UNCHANGED <<worked, outcome>>
    /\ UNCHANGED <<policy, call, before>>
    /\ UNCHANGED <<ledgerVars, sensor, query, fleetVars>>

\* one turn of wait_for_cooldown's loop up to the sleep: sample, test, and
\* either return (to the caller, or into guard's work) or start sleeping
CooldownSample(r) ==
    /\ bpc = "cooling"
    /\ Len(samples) < MaxSamples + (IF sensor = "cool" THEN 1 ELSE 0)
    /\ last_stats' = SampleStats(r, last_stats)
    /\ samples' = Append(samples, Taken(r, "cooldown"))
    /\ LET temp == GpuTemp(r) IN
        IF temp.kind = "Err"
        THEN /\ outcome' = temp
             /\ bpc' = "idle"
             /\ UNCHANGED <<sleeps, worked>>
        ELSE IF Cooled(temp.value, policy)
        THEN /\ bpc' = IF call = "guard" THEN "working" ELSE "idle"
             /\ worked' = (call = "guard")
             /\ outcome' = IF call = "guard" THEN NoOutcome ELSE Ok(FALSE, 0)
             /\ UNCHANGED sleeps
        ELSE /\ bpc' = "sleeping"
             /\ sleeps' = sleeps + 1
             /\ UNCHANGED <<worked, outcome>>
    /\ UNCHANGED <<policy, call, before>>
    /\ UNCHANGED <<ledgerVars, sensor, query, fleetVars>>

\* the wait as it would be if the breaker gave memory back while it sleeps
SleepElapsedReleasing ==
    /\ bpc = "sleeping"
    /\ bpc' = "cooling"
    /\ allocated' = 0
    /\ UNCHANGED <<policy, last_stats, call, samples, sleeps, worked, outcome, before>>
    /\ UNCHANGED <<total_mb, reserved_mb, pc, req, avail, guards, result, solo,
                   sensor, query, fleetVars>>

\* tokio::time::sleep(check_interval_ms) has elapsed
SleepElapsed ==
    /\ bpc = "sleeping"
    /\ bpc' = "cooling"
    /\ UNCHANGED <<policy, last_stats, call, samples, sleeps, worked, outcome, before>>
    /\ UNCHANGED <<ledgerVars, sensor, query, fleetVars>>

\* guard as it would be if it returned Ok(()) for a work that went well
WorkCompletesDiscarding(w) ==
    /\ bpc = "working"
    /\ bpc' = "idle"
    /\ outcome' = IF w.kind = "Ok" THEN Ok(FALSE, 0) ELSE w
    /\ UNCHANGED <<policy, last_stats, call, samples, sleeps, worked, before>>
    /\ UNCHANGED <<ledgerVars, sensor, query, fleetVars>>

\* `work.await` resolves and guard returns what it resolved to
WorkCompletes(w) ==
    /\ bpc = "working"
    /\ bpc' = "idle"
    /\ outcome' = w
    /\ UNCHANGED <<policy, last_stats, call, samples, sleeps, worked, before>>
    /\ UNCHANGED <<ledgerVars, sensor, query, fleetVars>>

\* ------------------------------------------------------------ f32 values
\* A finite f32 value >= 0 is <<m, e>>, standing for m * 2^e, in its one
\* canonical form: m odd, or <<0, 0>> for zero. An f32 holds 24 significant bits.
F32_MANTISSA_BITS == 24

RECURSIVE BitLen(_)
BitLen(n) == IF n = 0 THEN 0 ELSE 1 + BitLen(n \div 2)

RECURSIVE F32(_, _)
F32(m, e) ==
    IF m = 0 THEN <<0, 0>>
    ELSE IF m % 2 = 0 THEN F32(m \div 2, e + 1)
    ELSE <<m, e>>

\* the f32 nearest to m * 2^e, ties to the even mantissa
RoundToF32(m, e) ==
    IF BitLen(m) <= F32_MANTISSA_BITS THEN F32(m, e)
    ELSE LET drop == BitLen(m) - F32_MANTISSA_BITS
             q == 2 ^ drop
             lo == m \div q
             rem == m % q
             up == 2 * rem > q \/ (2 * rem = q /\ lo % 2 = 1)
         IN  F32(IF up THEN lo + 1 ELSE lo, e + drop)

\* `n as f32` of a u64
U64AsF32(n) == RoundToF32(n, 0)

\* `x as u64` of an f32 >= 0: the fraction is dropped
F32AsU64(x) == IF x[2] >= 0 THEN x[1] * (2 ^ x[2]) ELSE x[1] \div (2 ^ (0 - x[2]))

\* x * y in f32
MulF32(x, y) == RoundToF32(x[1] * y[1], x[2] + y[2])

\* x / y in f32, y > 0: 25 or 26 bits of the quotient and the remainder decide
\* the rounding
DivF32(x, y) ==
    IF x[1] = 0 THEN <<0, 0>>
    ELSE LET s == F32_MANTISSA_BITS + BitLen(y[1]) - BitLen(x[1])
             n == x[1] * (2 ^ s)
             q == n \div y[1]
             r == n % y[1]
             e == x[2] - y[2] - s
         IN  IF BitLen(q) <= F32_MANTISSA_BITS
             THEN LET up == 2 * r > y[1] \/ (2 * r = y[1] /\ q % 2 = 1)
                  IN  F32(IF up THEN q + 1 ELSE q, e)
             ELSE LET lo == q \div 2
                      up == q % 2 = 1 /\ (r > 0 \/ lo % 2 = 1)
                  IN  F32(IF up THEN lo + 1 ELSE lo, e + 1)

\* ---------------------------------------------------------- the selector
\* x <= y and x < y of two f32 values
F32LessEq(x, y) ==
    LET e == IF x[2] <= y[2] THEN x[2] ELSE y[2]
    IN  x[1] * (2 ^ (x[2] - e)) <= y[1] * (2 ^ (y[2] - e))

F32Less(x, y) == F32LessEq(x, y) /\ x # y

\* enum QuantLevel
QuantLevels == {"Q4_0", "Q4_1", "Q5_0", "Q5_1", "Q8_0", "F16", "F32"}

\* the table as it would be with the two 5-bit levels exchanged
PerplexityDeltaPercentExchanged(level) ==
    CASE level = "Q4_0" -> F32(5, 0)
      [] level = "Q4_1" -> F32(4, 0)
      [] level = "Q5_0" -> F32(5, -1)
      [] level = "Q5_1" -> F32(3, 0)
      [] level = "Q8_0" -> F32(1, 0)
      [] level \in {"F16", "F32"} -> F32(0, 0)

\* QuantLevel::perplexity_delta_percent: 5.0, 4.0, 3.0, 2.5, 1.0, 0.0, 0.0
PerplexityDeltaPercent(level) ==
    CASE level = "Q4_0" -> F32(5, 0)
      [] level = "Q4_1" -> F32(4, 0)
      [] level = "Q5_0" -> F32(3, 0)
      [] level = "Q5_1" -> F32(5, -1)
      [] level = "Q8_0" -> F32(1, 0)
      [] level \in {"F16", "F32"} -> F32(0, 0)

\* QuantLevel::memory_factor
MemoryFactor(level) ==
    CASE level \in {"Q4_0", "Q4_1"} -> F32(1, -2)
      [] level \in {"Q5_0", "Q5_1"} -> F32(5, -4)
      [] level = "Q8_0" -> F32(1, -1)
      [] level = "F16" -> F32(1, 0)
      [] level = "F32" -> F32(1, 1)

\* the levels select_for_budget tries, in its order
SelectOrder == <<"F16", "Q8_0", "Q5_1", "Q5_0", "Q4_1", "Q4_0">>

\* (model_f16_size_mb as f32 * level.memory_factor()) as u64
EstimatedSize(model_f16_size_mb, level) ==
    F32AsU64(MulF32(U64AsF32(model_f16_size_mb), MemoryFactor(level)))

\* the loop as it would be with < for <=
RECURSIVE SelectFromStrictly(_, _, _)
SelectFromStrictly(i, model_f16_size_mb, available) ==
    IF i > Len(SelectOrder) THEN "Q4_0"
    ELSE IF EstimatedSize(model_f16_size_mb, SelectOrder[i]) < available
    THEN SelectOrder[i]
    ELSE SelectFromStrictly(i + 1, model_f16_size_mb, available)

\* the loop as it would be with the least lossy level as its default
RECURSIVE SelectFromDefaultingToF16(_, _, _)
SelectFromDefaultingToF16(i, model_f16_size_mb, available) ==
    IF i > Len(SelectOrder) THEN "F16"
    ELSE IF EstimatedSize(model_f16_size_mb, SelectOrder[i]) <= available
    THEN SelectOrder[i]
    ELSE SelectFromDefaultingToF16(i + 1, model_f16_size_mb, available)

\* the loop of select_for_budget from its i-th level on, and its default
RECURSIVE SelectFrom(_, _, _)
SelectFrom(i, model_f16_size_mb, available) ==
    IF i > Len(SelectOrder) THEN "Q4_0"
    ELSE IF EstimatedSize(model_f16_size_mb, SelectOrder[i]) <= available
    THEN SelectOrder[i]
    ELSE SelectFrom(i + 1, model_f16_size_mb, available)

\* JetsonQuantizer::select_for_budget, given what budget.available_mb() returned
SelectForBudget(model_f16_size_mb, available) ==
    SelectFrom(1, model_f16_size_mb, available)

\* the first integer an f32 cannot tell from its neighbour is one above this
F32ExactLimit == 2 ^ F32_MANTISSA_BITS

\* full-precision model sizes passed to the selector: the small ones, the
\* sizes around the 6144 MB of an Orin Nano 8GB (24576 just fits at a quarter,
\* 24580 does not), and sizes beyond what an f32 holds exactly, which `as f32`
\* rounds down (the first and the last) or up (the second)
ModelSizes ==
    (0 .. MaxModelSize) \cup {14000, 20000, 24576, 24580}
        \cup {F32ExactLimit + 1, F32ExactLimit + 3, 4 * F32ExactLimit + 4}

\* what available_mb() of the budget passed to the selector returns
Availables == (0 .. MaxAvailable) \cup {6144, F32ExactLimit \div 4, F32ExactLimit}

\* no pure function has been called
NoQuery ==
    [size |-> 0, available |-> 0, level |-> "", op |-> "none",
     budget |-> <<0, 0, 0>>, percent |-> <<0, 0>>]

\* select_for_budget(model_f16_size_mb, &budget) is called with a budget whose
\* available_mb() is `available`
CallSelectForBudget(model_f16_size_mb, available) ==
    /\ query' = [size |-> model_f16_size_mb,
                 available |-> available,
                 level |-> SelectForBudget(model_f16_size_mb, available),
                 op |-> "select_for_budget",
                 budget |-> <<0, 0, 0>>, percent |-> <<0, 0>>]
    /\ UNCHANGED <<ledgerVars, thermalVars, fleetVars>>

\* --------------------------------------------------------------- fleet
\* the device ids the callers use, "j1", "j2", ... by their number
DeviceIds == 1 .. MaxDevices

\* the JetsonModel values the devices of the model have
JetsonModels == {"OrinNano8GB", "OrinNX16GB"}

\* the policies the members are added with
FleetPolicies == {Conservative, Aggressive}

\* JetsonDevice, as far as the fleet looks at it: info.id and info.model
JetsonDevice(id, model) == [id |-> id, model |-> model]

\* the FleetMember that add_device builds
FleetMember(device, member_policy) ==
    [device |-> device, policy |-> member_policy, enabled |-> TRUE]

\* the member in a return that carries none
NullMember == [device |-> JetsonDevice(0, ""), policy |-> Conservative, enabled |-> FALSE]

\* the keys of a HashMap given as its set of entries
MapKeys(map) == {e.key : e \in map}

\* HashMap::get and what HashMap::remove returns
MapGet(map, k) ==
    IF k \in MapKeys(map)
    THEN [some |-> TRUE, member |-> (CHOOSE e \in map : e.key = k).value]
    ELSE [some |-> FALSE, member |-> NullMember]

\* HashMap::remove: the map it leaves
MapRemove(map, k) == {e \in map : e.key # k}

\* insert as it would be if it kept the entry the key had
MapInsertKeepingOld(map, k, v) == map \cup {[key |-> k, value |-> v]}

\* HashMap::insert: the entry of the key, if any, is replaced
MapInsert(map, k, v) == MapRemove(map, k) \cup {[key |-> k, value |-> v]}

\* Fleet::len
FleetLen == Cardinality(devices)

\* Fleet::enabled_count
EnabledCount == Cardinality({e \in devices : e.value.enabled})

NoReturn == [op |-> "none", id |-> 0, some |-> FALSE, member |-> NullMember]

\* Fleet::new
FleetNew ==
    /\ devices = {}
    /\ returned = NoReturn
    /\ live_ids = {}

\* Fleet::add_device(device, policy): returns Ok(())
AddDevice(device, member_policy) ==
    /\ devices' = MapInsert(devices, device.id, FleetMember(device, member_policy))
    /\ returned' = [op |-> "add_device", id |-> device.id,
                    some |-> FALSE, member |-> NullMember]
    /\ live_ids' = live_ids \cup {device.id}
    /\ UNCHANGED <<ledgerVars, thermalVars, query>>

\* Fleet::remove_device(id): returns the member removed, if there was one
RemoveDevice(id) ==
    /\ devices' = MapRemove(devices, id)
    /\ returned' = [op |-> "remove_device", id |-> id,
                    some |-> MapGet(devices, id).some,
                    member |-> MapGet(devices, id).member]
    /\ live_ids' = live_ids \ {id}
    /\ UNCHANGED <<ledgerVars, thermalVars, query>>

\* ------------------------------------------------------- specifications
Init ==
    /\ \E total \in Totals, reserved \in Reserves : New(total, reserved)
    /\ NewMonitor(Conservative)
    /\ query = NoQuery
    /\ FleetNew

Next ==
    \/ \E t \in Threads, size_mb \in U64 : TryAllocateCheck(t, size_mb)
    \/ \E t \in Threads : TryAllocateAdd(t)
    \/ \E size_mb \in U64 : DropGuard(size_mb)

\* concurrent callers of one MemoryBudget
Spec == Init /\ [][Next]_vars

\* the same callers serialized externally: no ledger operation runs between
\* the load and the fetch_add of a try_allocate
NextSerial ==
    \/ \E t \in Threads, size_mb \in U64 :
        CallsInFlight = {} /\ TryAllocateCheck(t, size_mb)
    \/ \E t \in Threads : TryAllocateAdd(t)
    \/ \E size_mb \in U64 : CallsInFlight = {} /\ DropGuard(size_mb)

SpecSerial == Init /\ [][NextSerial]_vars

InitThermal ==
    /\ New(Modulus - 1, 1)
    /\ \E p \in Policies : NewMonitor(p)
    /\ query = NoQuery
    /\ FleetNew

NextThermal ==
    \/ \E r \in Readings : Sample(r)
    \/ \E r \in Readings : CallGpuTemp(r)
    \/ \E r \in Readings : CallIsThrottled(r)
    \/ \E r \in Readings : CallIsOpen(r)
    \/ WaitForCooldown
    \/ \E r \in Readings : Guard(r)
    \/ \E r \in Readings : CooldownSample(r)
    \/ SleepElapsed
    \/ \E w \in WorkResults : WorkCompletes(w)

\* one monitor and the breaker built on it, with the sensor as environment
SpecThermal == InitThermal /\ [][NextThermal]_vars

\* the readings that differ in what the breaker looks at: the GPU temperature,
\* or the failure; the other two temperatures are the ones sample() reports
BreakerReadings ==
    {Reading(g, 42, 44) : g \in GpuTemps} \cup {Failure(e) : e \in SampleErrors}

\* what the sensor can read in its present regime: once "cool", sampling
\* succeeds and the GPU temperature is at most cooldown_c
SensorReadings ==
    IF sensor = "cool"
    THEN {r \in BreakerReadings : r.ok /\ r.gpu_temp <= policy.cooldown_c}
    ELSE BreakerReadings

\* the device has cooled down for good
SensorCools ==
    /\ sensor = "any"
    /\ sensor' = "cool"
    /\ UNCHANGED <<policy, last_stats, call, bpc, samples, sleeps, worked, outcome,
                   before>>
    /\ UNCHANGED <<ledgerVars, query, fleetVars>>

\* the calls of one breaker, which owns its monitor
NextThermalLive ==
    \/ WaitForCooldown
    \/ \E r \in SensorReadings : Guard(r)
    \/ \E r \in SensorReadings : CooldownSample(r)
    \/ SleepElapsed
    \/ \E w \in WorkResults : WorkCompletes(w)
    \/ SensorCools

\* the executor keeps polling a pending wait_for_cooldown or guard future: the
\* next sample is taken, the timer of a sleep fires, and the work resolves
FairBreaker ==
    /\ WF_vars(\E r \in SensorReadings : CooldownSample(r))
    /\ WF_vars(SleepElapsed)
    /\ WF_vars(\E w \in WorkResults : WorkCompletes(w))

\* the breaker under fair scheduling, with a sensor that may cool down for good
SpecThermalLive == InitThermal /\ [][NextThermalLive]_vars /\ FairBreaker

\* -------------------------------------------------------- utilization
\* the percentage as it would be taken of total_mb
UtilizationOfTotal(total, reserved, alloc) ==
    LET whole == U64AsF32(total) IN
    IF whole = F32(0, 0) THEN F32(0, 0)
    ELSE MulF32(DivF32(U64AsF32(alloc), whole), F32(100, 0))

\* MemoryBudget::utilization_percent of a budget with these fields
UtilizationPercent(total, reserved, alloc) ==
    LET usable == U64AsF32(UsableMb(total, reserved)) IN
    IF usable = F32(0, 0) THEN F32(0, 0)
    ELSE MulF32(DivF32(U64AsF32(alloc), usable), F32(100, 0))

\* budgets <<total_mb, reserved_mb, allocated>> as allocations and releases
\* leave them: the small ones, an Orin Nano 8GB with half of its usable memory
\* allocated, a budget over-committed by the race of two allocations, and one
\* whose fields an f32 does not tell apart
Budgets ==
    {<<t, r, a>> \in (0 .. MaxBudgetMb) \X (0 .. MaxBudgetMb) \X (0 .. MaxBudgetMb) :
        a <= UsableMb(t, r)}
        \cup {<<8192, 2048, 3072>>, <<3, 1, 3>>, <<F32ExactLimit + 1, 0, F32ExactLimit>>}

\* budget.utilization_percent() is called
CallUtilizationPercent(b) ==
    /\ query' = [size |-> 0, available |-> 0, level |-> "",
                 op |-> "utilization_percent",
                 budget |-> b, percent |-> UtilizationPercent(b[1], b[2], b[3])]
    /\ UNCHANGED <<ledgerVars, thermalVars, fleetVars>>

InitSelect ==
    /\ New(Modulus - 1, 1)
    /\ NewMonitor(Conservative)
    /\ query = NoQuery
    /\ FleetNew

\* the budget passed is the ledger of the model or any other budget
NextSelect ==
    \E model_f16_size_mb \in ModelSizes,
       available \in Availables \cup {AvailableMb(total_mb, reserved_mb, allocated)} :
        CallSelectForBudget(model_f16_size_mb, available)

\* calls of select_for_budget
SpecSelect == InitSelect /\ [][NextSelect]_vars

NextFleet ==
    \/ \E id \in DeviceIds, model \in JetsonModels, p \in FleetPolicies :
        AddDevice(JetsonDevice(id, model), p)
    \/ \E id \in DeviceIds : RemoveDevice(id)

\* the owner of one Fleet adding and removing devices
SpecFleet == InitSelect /\ [][NextFleet]_vars

\* the budget asked is the ledger of the model or any other budget
NextUtilization ==
    \E b \in Budgets \cup {<<total_mb, reserved_mb, allocated>>} :
        CallUtilizationPercent(b)

\* calls of utilization_percent
SpecUtilization == InitSelect /\ [][NextUtilization]_vars

\* a reading under threshold_c and cooldown_c, one over both, and a failure
GateReadings == {Reading(45, 42, 44), Reading(70, 42, 44), Failure("Io")}

\* the task that uses the ledger next to the breaker
LedgerTask == CHOOSE t \in Threads : TRUE

\* the two gates side by side: one caller of the ledger and the calls of one
\* breaker, in every interleaving
NextGates ==
    \/ \E size_mb \in U64 : TryAllocateCheck(LedgerTask, size_mb)
    \/ TryAllocateAdd(LedgerTask)
    \/ \E size_mb \in U64 : DropGuard(size_mb)
    \/ \E r \in GateReadings : CallIsOpen(r)
    \/ WaitForCooldown
    \/ \E r \in GateReadings : Guard(r)
    \/ \E r \in GateReadings : CooldownSample(r)
    \/ SleepElapsed
    \/ \E w \in WorkResults : WorkCompletes(w)

SpecGates == InitSelect /\ [][NextGates]_vars

\* ------------------------------------------------ properties of the ledger
AddStep(t) == pc[t] = "checked" /\ pc'[t] = "idle"

\* C1: the availability check and the increment of `allocated` are one
\* atomic step: when a call adds its size, that size still fits the memory
\* available at that moment, so two concurrent calls whose combined size
\* exceeds the available memory never both succeed.
C1_CheckAndIncrementAtomic ==
    [][\A t \in Threads :
        AddStep(t) => req[t] <= AvailableMb(total_mb, reserved_mb, allocated)]_vars

\* C2: after every successful allocation, 0 <= allocated and
\* allocated + reserved_mb <= total_mb. Stated for the budgets with
\* reserved_mb <= total_mb, the only ones for which the bound can hold at all.
C2_NeverOverCommits ==
    [][\A t \in Threads :
        (AddStep(t) /\ reserved_mb <= total_mb)
            => (0 <= allocated' /\ allocated' + reserved_mb <= total_mb)]_vars

\* C3: a try_allocate(size) that no other ledger operation interleaves, with
\* size <= available_mb(), succeeds, returns a guard of that size, increases
\* `allocated` by exactly size and leaves available_mb() at the value it had
\* before the call minus size.
C3_SoloAllocateExact ==
    [][\A t \in Threads :
        (AddStep(t) /\ solo[t])
            => /\ result' = OkGuard(req[t])
               /\ guards'[req[t]] = guards[req[t]] + 1
               /\ allocated' = allocated + req[t]
               /\ AvailableMb(total_mb, reserved_mb, allocated') = avail[t] - req[t]]_vars

\* C4: a request larger than the available memory is rejected: no request
\* passes the check with size > available_mb(), and a call that returns
\* InsufficientMemory reports the requested size and the availability the
\* check observed, a size larger than that availability, creates no guard and
\* leaves `allocated` unchanged.
C4_OverBudgetRejected ==
    [][/\ \A t \in Threads :
            (pc[t] = "idle" /\ pc'[t] = "checked")
                => req'[t] <= AvailableMb(total_mb, reserved_mb, allocated)
       /\ (result' # result /\ result'.kind = "InsufficientMemory")
            => /\ result'.size_mb > result'.available_mb
               /\ result'.available_mb = AvailableMb(total_mb, reserved_mb, allocated)
               /\ allocated' = allocated
               /\ guards' = guards
               /\ pc' = pc]_vars

\* a request on top of a live allocation has been rejected, reporting what
\* was left of a budget with a reserve
C4_Witness ==
    /\ result.kind = "InsufficientMemory"
    /\ result.available_mb > 0
    /\ reserved_mb > 0
    /\ allocated > 0
    /\ allocated + result.available_mb + reserved_mb = total_mb

\* C5: release is the inverse of allocate; its clause on the release itself:
\* the one release of a guard (the step that consumes it) decrements
\* `allocated` by exactly the guard's recorded size.
C5_ReleaseDecrementsBySize ==
    [][\A s \in U64 :
        (guards'[s] = guards[s] - 1) => allocated' = allocated - s]_vars

\* ----------------------------------------------- properties of the breaker
Last(q) == q[Len(q)]
GuardWorking == call = "guard" /\ worked

\* C6: no work is executed while over threshold: the most recent GPU sample
\* of a guard call that has started its work does not exceed threshold_c.
C6_NoWorkOverThreshold ==
    GuardWorking => Last(samples).gpu_temp <= policy.threshold_c

\* C7: a guard call whose first sample exceeds threshold_c starts its work
\* only after a later sample <= cooldown_c, and at the first such sample:
\* every sample between the tripping one and the last is above cooldown_c,
\* and the work has not started while the call is still waiting.
C7_WorkOnlyAfterCooldown ==
    /\ (call = "guard" /\ bpc \in {"cooling", "sleeping"}) => ~worked
    /\ (GuardWorking /\ samples[1].gpu_temp > policy.threshold_c)
        => /\ Len(samples) >= 2
           /\ Last(samples).ok
           /\ Last(samples).gpu_temp <= policy.cooldown_c
           /\ \A i \in 2 .. (Len(samples) - 1) :
                samples[i].ok /\ samples[i].gpu_temp > policy.cooldown_c

\* a guard call tripped, saw a sample still too hot, slept, and started its
\* work at the sample that qualified
C7_Witness ==
    /\ GuardWorking
    /\ Len(samples) = 3
    /\ samples[1].gpu_temp > policy.threshold_c
    /\ sleeps = 1

\* C8: a guard call whose first sample does not exceed threshold_c takes
\* exactly one sample, never sleeps and is at (or past) its work at once; a
\* guard call makes the threshold test exactly once, on its first sample; and
\* while the work runs no sample is taken.
C8_ClosedRunsAtOnce ==
    /\ [](call = "guard" =>
            /\ Len(samples) >= 1
            /\ {i \in 1 .. Len(samples) : samples[i].test = "threshold"} = {1}
            /\ (samples[1].ok /\ samples[1].gpu_temp <= policy.threshold_c)
                => /\ Len(samples) = 1
                   /\ sleeps = 0
                   /\ worked
                   /\ bpc \in {"working", "idle"})
    /\ [][bpc = "working" =>
            (samples' = samples /\ sleeps' = sleeps /\ last_stats' = last_stats)]_vars

\* a guard call has run its work to the end on one sample that was above
\* cooldown_c and not above threshold_c
C8_Witness ==
    /\ call = "guard"
    /\ bpc = "idle"
    /\ outcome.kind = "Ok"
    /\ Len(samples) = 1
    /\ samples[1].gpu_temp > policy.cooldown_c
    /\ samples[1].gpu_temp <= policy.threshold_c

\* C9: is_open and is_throttled take exactly one fresh sample and return
\* true iff its GPU temperature is strictly greater than threshold_c,
\* whatever the CPU and SOC temperatures are.
C9_OpenIffGpuOverThreshold ==
    call \in {"is_open", "is_throttled"} =>
        /\ Len(samples) = 1
        /\ samples[1].test = "threshold"
        /\ samples[1].ok =>
            /\ outcome.kind = "Ok"
            /\ outcome.flag = (samples[1].gpu_temp > policy.threshold_c)
            /\ last_stats.some
            /\ last_stats.gpu_temp = samples[1].gpu_temp

\* is_open answered false for a GPU temperature equal to threshold_c while
\* the CPU and SOC temperatures were above it
C9_Witness ==
    /\ call = "is_open"
    /\ outcome = Ok(FALSE, 0)
    /\ last_stats.some
    /\ last_stats.gpu_temp = policy.threshold_c
    /\ last_stats.cpu_temp > policy.threshold_c
    /\ last_stats.soc_temp > policy.threshold_c

\* C10: a sampling failure ends the call at once with that very error: the
\* failed sample is the call's last, nothing is substituted for it, and a
\* guard call has not started its work.
C10_SamplingFailurePropagates ==
    \A i \in 1 .. Len(samples) :
        ~samples[i].ok =>
            /\ i = Len(samples)
            /\ bpc = "idle"
            /\ outcome = Err(samples[i].err)
            /\ ~worked

\* a guard call that tripped has returned the failure of a cooldown sample
C10_Witness ==
    /\ call = "guard"
    /\ Len(samples) >= 2
    /\ ~Last(samples).ok
    /\ outcome.kind = "Err"
\* C11: liveness of the gate. Once sampling no longer fails and every sampled
\* GPU temperature is <= cooldown_c, every pending wait_for_cooldown call
\* returns Ok, and every pending guard call starts its work and returns the
\* work's outcome (the breaker's steps being scheduled fairly).
C11_GateLiveness ==
    /\ (sensor = "cool" /\ call = "wait_for_cooldown" /\ bpc # "idle")
            ~> (call = "wait_for_cooldown" /\ bpc = "idle" /\ outcome = Ok(FALSE, 0))
    /\ (sensor = "cool" /\ call = "guard" /\ bpc # "idle")
            ~> (call = "guard" /\ worked)
    /\ (sensor = "cool" /\ call = "guard" /\ bpc # "idle")
            ~> (call = "guard" /\ worked /\ bpc = "idle" /\ outcome \in WorkResults)

\* a guard that waited through the whole bound of hot samples, started its
\* work after the sensor cooled and returned the work's outcome
C11_Witness ==
    /\ sensor = "cool"
    /\ call = "guard"
    /\ sleeps = MaxSamples - 1
    /\ Len(samples) = MaxSamples + 1
    /\ worked
    /\ bpc = "idle"
    /\ outcome \in WorkResults

\* the samples the cooldown loop of the present call has taken
CooldownSamples ==
    IF call = "wait_for_cooldown" THEN samples
    ELSE IF call = "guard" /\ Len(samples) >= 1 THEN Tail(samples)
    ELSE <<>>

\* the present call is in wait_for_cooldown: called directly, or by a guard
\* whose is_open found the breaker open
InCooldownWait ==
    \/ call = "wait_for_cooldown"
    \/ /\ call = "guard"
       /\ Len(samples) >= 1
       /\ samples[1].ok
       /\ samples[1].gpu_temp > policy.threshold_c

\* every sample of the cooldown loop succeeded with GPU temperature > cooldown_c
AllStillHot ==
    \A i \in 1 .. Len(CooldownSamples) :
        CooldownSamples[i].ok /\ CooldownSamples[i].gpu_temp > policy.cooldown_c

\* C12: the cooldown wait is unbounded and raises no error of its own. While
\* every sample of the loop succeeds with GPU temperature > cooldown_c, the
\* call (wait_for_cooldown, or a guard that tripped) has not returned and has
\* not started any work: it is sampling or sleeping, with one sleep per sample
\* taken. And an error returned by either call is never Timeout or
\* ThermalExceeded made by the breaker: it is the error of the call's last
\* sample, or the error the guard's work resolved to.
C12_WaitUnboundedNoOwnError ==
    /\ (InCooldownWait /\ AllStillHot)
            => /\ bpc \in {"cooling", "sleeping"}
               /\ outcome = NoOutcome
               /\ ~worked
               /\ sleeps = Len(CooldownSamples)
    /\ (call \in {"wait_for_cooldown", "guard"} /\ outcome.kind = "Err")
            => \/ /\ ~worked
                  /\ ~Last(samples).ok
                  /\ outcome = Err(Last(samples).err)
                  /\ outcome.err \in SampleErrors
               \/ /\ call = "guard"
                  /\ worked
                  /\ outcome \in WorkResults

\* a wait_for_cooldown still waiting after as many hot samples as the bound allows
C12_Witness ==
    /\ call = "wait_for_cooldown"
    /\ AllStillHot
    /\ Len(samples) = MaxSamples
    /\ sleeps = MaxSamples
    /\ bpc = "sleeping"

\* C13: every ThermalPolicy that can be constructed (conservative(),
\* aggressive(), default(), custom(threshold, cooldown, interval)) has
\* cooldown_c <= threshold_c: the resume point is never above the pause point.
C13_CooldownNotAboveThreshold == policy.cooldown_c <= policy.threshold_c

\* --------------------------------------------- properties of the selector
\* floor(size x memory_factor) in exact arithmetic: the factors are 16, 8, 5
\* and 4 sixteenths
FloorSize(size, level) ==
    LET sixteenths == CASE level \in {"Q4_0", "Q4_1"} -> 4
                        [] level \in {"Q5_0", "Q5_1"} -> 5
                        [] level = "Q8_0" -> 8
                        [] level = "F16" -> 16
    IN  (size * sixteenths) \div 16

\* the i-th level of the order fits the budget of the last selection
FitsAt(i) == FloorSize(query.size, SelectOrder[i]) <= query.available

Selected == query.op = "select_for_budget"

\* C14: select_for_budget returns the first level, in the order F16, Q8_0,
\* Q5_1, Q5_0, Q4_1, Q4_0, whose estimated size floor(size x memory_factor) is
\* <= available: whenever some level fits, the returned level fits and no
\* level earlier in the order fits; size 14000 with 6144 available gives Q5_1.
C14_FirstFittingLevel ==
    Selected =>
        /\ (\E i \in 1 .. Len(SelectOrder) : FitsAt(i))
                => \E i \in 1 .. Len(SelectOrder) :
                        /\ query.level = SelectOrder[i]
                        /\ FitsAt(i)
                        /\ \A j \in 1 .. (i - 1) : ~FitsAt(j)
        /\ (query.size = 14000 /\ query.available = 6144) => query.level = "Q5_1"

\* C15: if no level fits, the most aggressive one included
\* (floor(size x 0.25) > available), select_for_budget still returns Q4_0;
\* it returns a level for every pair of inputs and never signals failure.
C15_NothingFitsGivesQ4_0 ==
    Selected =>
        /\ query.level \in {SelectOrder[i] : i \in 1 .. Len(SelectOrder)}
        /\ FloorSize(query.size, "Q4_0") > query.available => query.level = "Q4_0"

\* C16 as stated: with an available budget of 0, select_for_budget returns
\* Q4_0 for every full-precision size.
C16_ZeroBudgetAlwaysQ4_0 ==
    (Selected /\ query.available = 0) => query.level = "Q4_0"

\* C16: with an available budget of 0, select_for_budget returns Q4_0 for
\* every full-precision size of 4 or more; below that some estimated size is 0
\* and fits, and the first such level is returned: F16 for size 0, Q8_0 for
\* size 1, Q5_1 for sizes 2 and 3.
C16_ZeroBudget ==
    (Selected /\ query.available = 0) =>
        query.level = IF query.size >= 4 THEN "Q4_0"
                      ELSE IF query.size >= 2 THEN "Q5_1"
                      ELSE IF query.size = 1 THEN "Q8_0"
                      ELSE "F16"

\* no budget at all and a model of a size an f32 does not hold exactly
C16_Witness ==
    /\ Selected
    /\ query.available = 0
    /\ query.size > F32ExactLimit
    /\ query.level = "Q4_0"

\* -------------------------------------------- properties of the ledger, II
\* total_mb - reserved_mb - allocated when that is not negative, 0 otherwise
ClampedDifference ==
    IF total_mb - reserved_mb - allocated >= 0
    THEN total_mb - reserved_mb - allocated
    ELSE 0

\* C18: in every reachable state available_mb() equals
\* total_mb - reserved_mb - allocated when that difference is not negative and
\* 0 otherwise, also when reserved_mb > total_mb; it never fails (the sum
\* reserved_mb + allocated it computes does not overflow), and the call of it
\* that try_allocate makes leaves `allocated` as it was.
C18_AvailableIsClampedDifference ==
    /\ [](~AddOverflows(reserved_mb, allocated))
    /\ [](AvailableMb(total_mb, reserved_mb, allocated) = ClampedDifference)
    /\ [][\A t \in Threads :
            (pc[t] = "idle" /\ pc'[t] = "checked")
                => (allocated' = allocated /\ avail'[t] = ClampedDifference)]_vars

Asked == query.op = "utilization_percent"
AskedUsable == UsableMb(query.budget[1], query.budget[2])
AskedAllocated == query.budget[3]

\* the f32 x is alloc / usable x 100 as closely as two f32 roundings allow:
\* within 2^-22 of it, and equal to it where the quotient is short
IsRatioTimes100(x, alloc, usable) ==
    LET k == IF x[2] < 0 THEN 0 - x[2] ELSE 0
        held == x[1] * (2 ^ (x[2] + k)) * usable
        exact == 100 * alloc * (2 ^ k)
        diff == IF held >= exact THEN held - exact ELSE exact - held
    IN  diff <= exact \div (2 ^ 22)

\* what C19 says of the values 0 and 50 and of the ratio
UtilizationValues ==
    /\ AskedUsable = 0 => query.percent = F32(0, 0)
    /\ AskedAllocated = 0 => query.percent = F32(0, 0)
    /\ (AskedUsable # 0 /\ AskedAllocated # 0)
            => IsRatioTimes100(query.percent, AskedAllocated, AskedUsable)
    /\ (AskedAllocated = 3072 /\ AskedUsable = 6144) => query.percent = F32(50, 0)

\* C19 as stated: utilization_percent() is 0 when the usable capacity is zero and
\* when allocated = 0, otherwise allocated / (total_mb - reserved_mb) x 100
\* (50 for 3072 of 6144), and it is 100 exactly when allocated equals the
\* usable capacity.
C19_HundredExactlyWhenFull ==
    Asked =>
        /\ UtilizationValues
        /\ query.percent = F32(100, 0)
                <=> (AskedAllocated = AskedUsable /\ AskedUsable # 0)

\* C19: utilization_percent() is 0 when the usable capacity is zero and when
\* allocated = 0, otherwise allocated / (total_mb - reserved_mb) x 100 to the
\* precision of an f32 (50 for 3072 of 6144); it is 100 when allocated equals
\* the usable capacity, and only then as long as both are integers an f32
\* holds exactly.
C19_Utilization ==
    Asked =>
        /\ UtilizationValues
        /\ (AskedAllocated = AskedUsable /\ AskedUsable # 0)
                => query.percent = F32(100, 0)
        /\ (/\ query.percent = F32(100, 0)
            /\ AskedAllocated <= F32ExactLimit
            /\ AskedUsable <= F32ExactLimit)
                => AskedAllocated = AskedUsable

\* a third of the usable memory allocated: a percentage no f32 holds exactly
C19_Witness ==
    /\ Asked
    /\ AskedUsable = 3
    /\ AskedAllocated = 1
    /\ query.budget[2] > 0
    /\ query.percent = F32(4369067, -17)

\* ------------------------------------------ properties of the breaker, II
\* C20: the breaker keeps no open/closed state between calls and has no
\* terminal state. Whatever the calls before were and however they ended, a
\* guard can be called; it waits if and only if its own first sample succeeds
\* above threshold_c, and with a first sample <= threshold_c it is at its work
\* at once; and is_open answers by its own sample alone.
C20_NoStateBetweenCalls ==
    /\ [](bpc = "idle" => ENABLED (\E r \in Readings : Guard(r)))
    /\ [][(bpc = "idle" /\ call' = "guard") =>
            LET first == samples'[1] IN
            /\ Len(samples') = 1
            /\ sleeps' = 0
            /\ worked' = (first.ok /\ first.gpu_temp <= policy.threshold_c)
            /\ bpc' = IF ~first.ok THEN "idle"
                      ELSE IF first.gpu_temp > policy.threshold_c THEN "cooling"
                      ELSE "working"]_vars
    /\ [][(bpc = "idle" /\ call' = "is_open" /\ samples'[1].ok) =>
            outcome' = Ok(samples'[1].gpu_temp > policy.threshold_c, 0)]_vars

\* a guard call at its work on its one sample, right after a call that had
\* to wait
C20_Witness ==
    /\ before = "waited"
    /\ call = "guard"
    /\ Len(samples) = 1
    /\ samples[1].ok
    /\ samples[1].gpu_temp <= policy.threshold_c
    /\ worked
    /\ bpc = "working"

\* every sample of the present call succeeded and the call has returned
ChecksSucceededAndReturned ==
    /\ call = "guard"
    /\ bpc = "idle"
    /\ \A i \in 1 .. Len(samples) : samples[i].ok

\* C21: when the thermal checks of a guard call succeed, guard runs the work
\* exactly once and returns exactly the work's outcome, the Ok value or the
\* error unchanged: a guard that has returned after successful samples did
\* start its work and holds one of the work's results; the work is entered
\* once per call; and the step that ends the work changes nothing but the
\* call's position and its outcome, which is what the work resolved to.
C21_ReturnsWorkOutcome ==
    /\ [](ChecksSucceededAndReturned => (worked /\ outcome \in WorkResults))
    /\ [][(bpc # "working" /\ bpc' = "working") => (bpc = "idle" \/ ~worked)]_vars
    /\ [][(bpc = "working" /\ bpc' # "working") =>
            /\ bpc' = "idle"
            /\ outcome' \in WorkResults
            /\ \E w \in WorkResults : WorkCompletes(w) /\ outcome' = w
            /\ worked' /\ call' = "guard" /\ samples' = samples]_vars

\* guard(async { Ok(42) }) has returned 42 after having waited for cooldown
C21_Witness ==
    /\ call = "guard"
    /\ bpc = "idle"
    /\ sleeps > 0
    /\ outcome = Ok(FALSE, 42)

\* ------------------------------------------------ properties of both gates
\* a guard call is blocked in wait_for_cooldown
GuardBlocked == call = "guard" /\ bpc \in {"cooling", "sleeping"}

\* C22: memory accounting and thermal gating are orthogonal. No step changes
\* both sides: a step of is_open, wait_for_cooldown or guard leaves the ledger
\* (and `allocated` in particular) as it was, and a step of try_allocate or of
\* a release takes no sample and leaves the monitor and the breaker as they
\* were. And while a guard call is blocked waiting for cooldown every live
\* handle can be released and a pending allocation can complete.
C22_GatesOrthogonal ==
    /\ [][thermalVars' = thermalVars \/ ledgerVars' = ledgerVars]_vars
    /\ [][allocated' # allocated => (samples' = samples /\ last_stats' = last_stats)]_vars
    /\ [](GuardBlocked =>
            /\ \A size_mb \in U64 : guards[size_mb] > 0 => ENABLED DropGuard(size_mb)
            /\ pc[LedgerTask] = "checked" => ENABLED TryAllocateAdd(LedgerTask)
            /\ (pc[LedgerTask] = "idle" /\ LiveGuards + InFlight < MaxGuards)
                    => ENABLED TryAllocateCheck(LedgerTask, 0))

\* a guard call asleep in its cooldown wait while a handle is live and an
\* allocation is between its check and its add
C22_Witness ==
    /\ GuardBlocked
    /\ bpc = "sleeping"
    /\ sleeps > 1
    /\ LiveGuards > 0
    /\ allocated > 0
    /\ pc[LedgerTask] = "checked"

\* ------------------------------------------ properties of the selector, II
\* C23: the catalog runs from highest fidelity to most aggressive compression
\* and accuracy loss never decreases as the memory factor decreases: along
\* the selector's order F16, Q8_0, Q5_1, Q5_0, Q4_1, Q4_0 memory_factor does
\* not increase and perplexity_delta_percent does not decrease, and over all
\* seven levels a smaller memory_factor never has a smaller
\* perplexity_delta_percent. So no level the selector passed over on its way
\* to the one it returned loses more accuracy than that one.
C23_CatalogOrdered ==
    /\ \A i \in 1 .. (Len(SelectOrder) - 1) :
            /\ F32LessEq(MemoryFactor(SelectOrder[i + 1]), MemoryFactor(SelectOrder[i]))
            /\ F32LessEq(PerplexityDeltaPercent(SelectOrder[i]),
                         PerplexityDeltaPercent(SelectOrder[i + 1]))
    /\ \A l1, l2 \in QuantLevels :
            F32Less(MemoryFactor(l1), MemoryFactor(l2))
                => F32LessEq(PerplexityDeltaPercent(l2), PerplexityDeltaPercent(l1))
    /\ Selected =>
            \A i, j \in 1 .. Len(SelectOrder) :
                (i < j /\ SelectOrder[j] = query.level)
                    => F32LessEq(PerplexityDeltaPercent(SelectOrder[i]),
                                 PerplexityDeltaPercent(query.level))

\* the selector went down the whole order to the last level
C23_Witness ==
    /\ Selected
    /\ query.level = SelectOrder[Len(SelectOrder)]
    /\ query.available > 0

\* the first level of the order that fits the budget of the last selection,
\* or none
FirstFitting ==
    IF \E i \in 1 .. Len(SelectOrder) : FitsAt(i)
    THEN SelectOrder[CHOOSE i \in 1 .. Len(SelectOrder) :
                        FitsAt(i) /\ \A j \in 1 .. (i - 1) : ~FitsAt(j)]
    ELSE "none"

\* C24: tie-break between levels of equal memory factor: whenever the first
\* fitting factor is shared by two levels, select_for_budget returns the
\* higher-quality one, Q5_1 rather than Q5_0 and Q4_1 rather than Q4_0 (size
\* 20000 with 6144 available gives Q4_1); Q5_0 is never returned.
C24_TieBreak ==
    Selected =>
        /\ FirstFitting \in {"Q5_1", "Q4_1"} => query.level = FirstFitting
        /\ (query.size = 20000 /\ query.available = 6144) => query.level = "Q4_1"
        /\ query.level # "Q5_0"

\* ----------------------------------------- properties of the breaker, III
\* the positions of the successful samples of the present call
OkSamples == {i \in 1 .. Len(samples) : samples[i].ok}

\* this step takes a sample: a call starts with one, or the loop takes one more
SampleStep ==
    /\ Len(samples') >= 1
    /\ \/ (bpc = "idle" /\ call' # "wait_for_cooldown")
       \/ Len(samples') = Len(samples) + 1

\* C25: last_stats is None until the first sample and, after any sequence of
\* sample, gpu_temp, is_throttled, is_open, wait_for_cooldown and guard calls,
\* it is the most recent sample that succeeded; a failed sample leaves it as
\* it was, and so does every step that takes no sample.
C25_LastStatsIsLatestSample ==
    /\ [](call = "none" => last_stats = None)
    /\ [](OkSamples # {} =>
            LET latest == CHOOSE i \in OkSamples : \A j \in OkSamples : j <= i
            IN  last_stats.some /\ last_stats.gpu_temp = samples[latest].gpu_temp)
    /\ [][IF SampleStep /\ Last(samples').ok
          THEN /\ last_stats'.some
               /\ last_stats'.gpu_temp = Last(samples').gpu_temp
               /\ last_stats'.cpu_temp \in CpuTemps
               /\ last_stats'.soc_temp \in SocTemps
          ELSE last_stats' = last_stats]_vars

\* a guard call ended by a failed sample: the stored stats are still those of
\* the sample before it
C25_Witness ==
    /\ last_stats.some
    /\ last_stats.gpu_temp > policy.threshold_c
    /\ call = "guard"
    /\ Len(samples) = MaxSamples
    /\ ~samples[1].test = "cooldown"
    /\ ~Last(samples).ok
    /\ OkSamples = 1 .. (MaxSamples - 1)

\* ------------------------------------------- properties of the ledger, III
\* the sizes added by a fetch_add whose handle has not been dropped, summed
LiveSizes == SumOver([size_mb \in U64 |-> size_mb * guards[size_mb]], U64)

\* C26: conservation of the counter under any interleaving of try_allocate
\* and handle drops: `allocated` always equals the sum of the sizes whose
\* fetch_add has executed and whose handle has not been dropped; the
\* fetch_sub of a drop never takes `allocated` below zero; and whenever no
\* handle is live and no allocation is in flight, allocated = 0 and
\* available_mb() = usable_mb().
C26_CounterConserved ==
    /\ [](allocated = LiveSizes)
    /\ [][\A size_mb \in U64 :
            guards'[size_mb] < guards[size_mb] => allocated >= size_mb]_vars
    /\ []((LiveGuards = 0 /\ CallsInFlight = {}) =>
            /\ allocated = 0
            /\ AvailableMb(total_mb, reserved_mb, allocated) = UsableMb(total_mb, reserved_mb))

\* C27: when reserved_mb <= total_mb and no ledger operation runs between the
\* availability check and the fetch_add of any try_allocate (one caller, or
\* callers serialized externally), allocated <= total_mb - reserved_mb in
\* every reachable state, for any sequence of allocations and releases.
C27_SerializedNeverOverCommits ==
    reserved_mb <= total_mb => allocated <= total_mb - reserved_mb

\* the usable memory is allocated to the last MB, in two handles
C27_Witness ==
    /\ reserved_mb > 0
    /\ reserved_mb < total_mb
    /\ allocated = total_mb - reserved_mb
    /\ LiveGuards >= 2
    /\ guards[0] = 0
    /\ result.kind = "Ok"

\* available_mb() is the same before and after this step
AvailableUnchanged ==
    AvailableMb(total_mb, reserved_mb, allocated')
        = AvailableMb(total_mb, reserved_mb, allocated)

\* C28: try_allocate(0) succeeds in every state, also when available_mb() is
\* 0: its check passes, it returns a handle of size 0 and leaves `allocated`
\* and available_mb() as they were, and so does the release of that handle.
C28_ZeroAlwaysSucceeds ==
    /\ [][\A t \in Threads : TryAllocateCheck(t, 0) => pc'[t] = "checked"]_vars
    /\ [][\A t \in Threads :
            (AddStep(t) /\ req[t] = 0)
                => /\ result' = OkGuard(0)
                   /\ guards'[0] = guards[0] + 1
                   /\ allocated' = allocated
                   /\ AvailableUnchanged]_vars
    /\ [][guards'[0] < guards[0] => (allocated' = allocated /\ AvailableUnchanged)]_vars

\* C29: can_allocate(size) agrees with try_allocate(size) made in the same
\* state with no ledger operation in between: a try_allocate passes its check
\* exactly when can_allocate is true there, a call that passed and was not
\* interleaved returns its handle, and a try_allocate that panics does so on
\* the sum reserved_mb + allocated, on which can_allocate panics as well.
\* can_allocate is a read: it is evaluated on the state and is no step.
C29_CanAllocateAgrees ==
    /\ [][\A t \in Threads :
            (pc[t] = "idle" /\ pc'[t] = "checked") => CanAllocate(req'[t])]_vars
    /\ [][(pc' = pc /\ guards' = guards /\ result'.kind = "InsufficientMemory")
            => /\ ~CanAllocate(result'.size_mb)
               /\ result'.available_mb = AvailableMb(total_mb, reserved_mb, allocated)]_vars
    /\ [][(result' = Panicked /\ result # Panicked)
            => AddOverflows(reserved_mb, allocated)]_vars
    /\ [][\A t \in Threads :
            (AddStep(t) /\ solo[t]) => (result' = OkGuard(req[t]) /\ req[t] <= avail[t])]_vars

\* a call has passed its check with a size that is all that is available,
\* next to a live handle
C29_Witness ==
    \E t \in Threads :
        /\ pc[t] = "checked"
        /\ solo[t]
        /\ req[t] > 0
        /\ req[t] = AvailableMb(total_mb, reserved_mb, allocated)
        /\ allocated > 0

\* C30: select_for_budget returns Q4_0 exactly when no level fits, that is
\* when floor(size x 0.25) > available: a Q4_0 result means the selected level
\* does not fit the budget, every other result is a level whose estimated
\* size floor(size x memory_factor) fits, and F32 is never returned.
C30_Q4_0IffNothingFits ==
    Selected =>
        /\ query.level = "Q4_0" <=> FloorSize(query.size, "Q4_0") > query.available
        /\ query.level = "Q4_0" => \A i \in 1 .. Len(SelectOrder) : ~FitsAt(i)
        /\ query.level # "Q4_0"
                => /\ query.level \in {SelectOrder[i] : i \in 1 .. Len(SelectOrder)}
                   /\ FloorSize(query.size, query.level) <= query.available
        /\ query.level # "F32"

\* the place of a level in the order the selector tries them in
LevelIndex(level) == CHOOSE i \in 1 .. Len(SelectOrder) : SelectOrder[i] = level

\* C31: selection is monotone. Of two calls of select_for_budget made one
\* after the other with the same full-precision size, the one with the larger
\* available budget never returns a level later in the order F16, Q8_0, Q5_1,
\* Q5_0, Q4_1, Q4_0; of two calls with the same available budget, the one
\* with the larger size never returns an earlier level.
C31_SelectionMonotone ==
    /\ [][(Selected /\ Selected' /\ query'.size = query.size)
            => /\ query'.available >= query.available
                    => LevelIndex(query'.level) <= LevelIndex(query.level)
               /\ query'.available <= query.available
                    => LevelIndex(query'.level) >= LevelIndex(query.level)]_vars
    /\ [][(Selected /\ Selected' /\ query'.available = query.available)
            => /\ query'.size >= query.size
                    => LevelIndex(query'.level) >= LevelIndex(query.level)
               /\ query'.size <= query.size
                    => LevelIndex(query'.level) <= LevelIndex(query.level)]_vars

\* a call returned a level strictly between the ends of the order, for a size
\* beyond what an f32 holds exactly, and both a less and a more lossy level
\* are returned for the same size at other budgets
C31_Witness ==
    /\ Selected
    /\ query.size > F32ExactLimit
    /\ query.level \notin {"F16", "Q4_0"}
    /\ \E a \in Availables :
            /\ a > query.available
            /\ LevelIndex(SelectForBudget(query.size, a)) < LevelIndex(query.level)
    /\ \E a \in Availables :
            /\ a < query.available
            /\ LevelIndex(SelectForBudget(query.size, a)) > LevelIndex(query.level)

\* C32: in every reachable state of a MemoryBudget, for any total_mb and
\* reserved_mb and any interleaving of allocations and releases, the sum
\* reserved_mb + allocated that available_mb computes stays within the word
\* (no call has panicked on it and it does not wrap), so available_mb never
\* reports more than total_mb - reserved_mb.
C32_SumStaysInRange ==
    /\ ~AddOverflows(reserved_mb, allocated)
    /\ result # Panicked
    /\ AvailableMb(total_mb, reserved_mb, allocated) <= UsableMb(total_mb, reserved_mb)

\* C33: after any sequence of add_device and remove_device calls, len() is the
\* number of distinct device ids added and not since removed, and every
\* member is enabled (enabled_count() = len()). add_device with a new id
\* increases len by 1; with an id already present it replaces that member and
\* leaves len unchanged; remove_device of a present id returns the member and
\* decreases len by 1; remove_device of an absent id returns None and leaves
\* the fleet unchanged.
C33_FleetBookkeeping ==
    /\ [](/\ FleetLen = Cardinality(live_ids)
          /\ MapKeys(devices) = live_ids
          /\ EnabledCount = FleetLen)
    /\ [][\A id \in DeviceIds, model \in JetsonModels, p \in FleetPolicies :
            AddDevice(JetsonDevice(id, model), p)
                => /\ id \notin MapKeys(devices) => FleetLen' = FleetLen + 1
                   /\ id \in MapKeys(devices) => FleetLen' = FleetLen
                   /\ MapGet(devices', id) =
                        [some |-> TRUE,
                         member |-> FleetMember(JetsonDevice(id, model), p)]
                   /\ \A other \in DeviceIds \ {id} :
                        MapGet(devices', other) = MapGet(devices, other)]_vars
    /\ [][\A id \in DeviceIds :
            RemoveDevice(id)
                => /\ id \in MapKeys(devices)
                        => /\ returned'.some
                           /\ returned'.member = MapGet(devices, id).member
                           /\ FleetLen' = FleetLen - 1
                   /\ id \notin MapKeys(devices)
                        => /\ ~returned'.some
                           /\ devices' = devices
                   /\ ~MapGet(devices', id).some]_vars

\* a fleet of two members, one of them an Orin NX 16GB under the aggressive
\* policy, from which a present member has just been removed
C33_Witness ==
    /\ FleetLen = 2
    /\ returned.op = "remove_device"
    /\ returned.some
    /\ \E e \in devices : e.value.policy = Aggressive /\ e.value.device.model = "OrinNX16GB"

====
